---- MODULE Spec2Model ----
(***************************************************************************)
(* A model of the hrx crate: the archive representation (src/src/repr.rs), *)
(* its content validation, the boundary-length setter, serialisation, and  *)
(* parsing of archive text and of entry paths.                             *)
(*                                                                         *)
(* Text is a sequence of one-character strings.  Option<String> is a       *)
(* sequence of length 0 (None) or 1 (Some(s)), so that None = <<>> and      *)
(* Some("") = << <<>> >> differ.  The entries map (a LinkedHashMap) is a   *)
(* sequence of [path, entry] records with pairwise distinct paths, in      *)
(* insertion order.                                                        *)
(***************************************************************************)
EXTENDS Naturals, Sequences, FiniteSets, TLC

VARIABLES
    arch,     \* the HrxArchive the caller holds
    ret,      \* what the last operation returned
    sink,     \* the output stream handed to the last serialise call, after the call
    pre,      \* what that stream held before the call
    op,       \* the last operation and its argument
    text,     \* the input text the caller assembles (an archive, or a raw path)
    inp,      \* the &str handed to the from_str call in progress, or last made
    pc,       \* "ready", or "parsing" while from_str is consuming entries
    width,    \* the boundary width from_str discovered
    pos,      \* from_str's position in inp (1-based)
    acc,      \* the entries from_str has inserted so far
    origin    \* "new": arch was built by new() and the caller; "parsed": by from_str

vars == <<arch, ret, sink, pre, op, text, inp, pc, width, pos, acc, origin>>

\* ------------------------------------------------------------------ bounds

\* Boundary lengths the caller tries: 1..MaxWidth.
MaxWidth == 2
\* Pieces of text the caller may concatenate into a document.
MaxPieces == 4
\* Characters of a raw path string.
MaxPathLen == 4

\* ------------------------------------------------------------------ text

NL == "\n"

None == <<>>
Some(s) == <<s>>

RECURSIVE Equals(_)
Equals(n) ==
    IF n = 0 THEN <<>> ELSE <<"=">> \o Equals(n - 1)

\* The boundary: "<", len times "=", ">".
Marker(len) ==
    <<"<">> \o Equals(len) \o <<">">>

\* Whether pat occurs in s starting at index i.
StartsWith(s, i, pat) ==
    /\ i >= 1
    /\ i + Len(pat) - 1 <= Len(s)
    /\ SubSeq(s, i, i + Len(pat) - 1) = pat

\* The index of the first occurrence of pat in s at or after i; 0 if none.
RECURSIVE FindFrom(_, _, _)
FindFrom(s, i, pat) ==
    IF i + Len(pat) - 1 > Len(s) THEN 0
    ELSE IF StartsWith(s, i, pat) THEN i
    ELSE FindFrom(s, i + 1, pat)

\* util::boundary_str: the string validate_boundlen searches for, a newline
\* followed by the boundary of the given length.
boundary_str(len) ==
    <<NL>> \o Marker(len)

\* ------------------------------------------------------------------ data

File(body) == [kind |-> "File", body |-> body]
Directory == [kind |-> "Directory"]
HrxEntry(comment, data) == [comment |-> comment, data |-> data]
HrxArchive(comment, entries, len) ==
    [comment |-> comment, entries |-> entries, boundary_length |-> len]

\* HrxArchive::new
new(boundary_length) ==
    HrxArchive(None, <<>>, boundary_length)

Ok == [tag |-> "Ok"]
RootComment == [tag |-> "BodyContainsBoundary", where |-> "RootComment", path |-> <<>>]
EntryComment(pp) == [tag |-> "BodyContainsBoundary", where |-> "EntryComment", path |-> pp]
EntryData(pp) == [tag |-> "BodyContainsBoundary", where |-> "EntryData", path |-> pp]

Keys(entries) == {entries[i].path : i \in 1..Len(entries)}

\* ------------------------------------------------------------ validation

\* verify_opt: Err iff the option holds a string in which `with` occurs.
verify_opt(which, with) ==
    IF which # None /\ FindFrom(which[1], 1, with) # 0 THEN "Err" ELSE "Ok"

\* The loop of validate_boundlen over the entries, from index i on.
RECURSIVE validate_entries(_, _, _)
validate_entries(entries, i, ss) ==
    IF i > Len(entries) THEN Ok
    ELSE LET pp == entries[i].path
             dt == entries[i].entry
         IN  IF verify_opt(dt.comment, ss) = "Err" THEN EntryComment(pp)
             ELSE IF dt.data.kind = "File" /\ verify_opt(dt.data.body, ss) = "Err"
                  THEN EntryData(pp)
             ELSE validate_entries(entries, i + 1, ss)

\* validate_boundlen with a fault: entries are searched before the root comment.
validate_boundlen_entriesfirst(a, len) ==
    LET ss == boundary_str(len)
        r == validate_entries(a.entries, 1, ss)
    IN  IF r # Ok THEN r
        ELSE IF verify_opt(a.comment, ss) = "Err" THEN RootComment
        ELSE Ok

\* HrxArchive::validate_boundlen
validate_boundlen(a, len) ==
    LET ss == boundary_str(len)
    IN  IF verify_opt(a.comment, ss) = "Err" THEN RootComment
        ELSE validate_entries(a.entries, 1, ss)

\* validate_content with a fault: nothing is checked.
validate_content_never(a) ==
    Ok

\* HrxArchive::validate_content
validate_content(a) ==
    validate_boundlen(a, a.boundary_length)

\* set_boundary_length with a fault: the length is stored before validating.
set_boundary_length_eager(a, new_len) ==
    [ret |-> validate_boundlen(a, new_len),
     arch |-> [a EXCEPT !.boundary_length = new_len]]

\* HrxArchive::set_boundary_length: the returned value and the archive after.
set_boundary_length(a, new_len) ==
    LET r == validate_boundlen(a, new_len)
    IN  IF r # Ok THEN [ret |-> r, arch |-> a]
        ELSE [ret |-> Ok, arch |-> [a EXCEPT !.boundary_length = new_len]]

\* --------------------------------------------------------- serialisation

\* A boundary line naming an entry: boundary, space, path, "/" for a directory.
path_line(len, pp, data) ==
    Marker(len) \o <<" ">> \o pp
        \o (IF data.kind = "Directory" THEN <<"/">> ELSE <<>>) \o <<NL>>

\* A comment: a bare boundary line, then the comment text.
comment_block(len, c) ==
    Marker(len) \o <<NL>> \o c

\* The text of entries i.. in map order.  A body is followed by the newline
\* that ends it unless it is the last thing written.
RECURSIVE write_entries(_, _, _, _)
write_entries(entries, i, len, more) ==
    IF i > Len(entries) THEN <<>>
    ELSE LET pp == entries[i].path
             dt == entries[i].entry
             last == i = Len(entries) /\ ~more
         IN  (IF dt.comment # None
              THEN comment_block(len, dt.comment[1]) \o <<NL>> ELSE <<>>)
             \o path_line(len, pp, dt.data)
             \o (IF dt.data.kind = "File" /\ dt.data.body # None
                 THEN dt.data.body[1] \o (IF last THEN <<>> ELSE <<NL>>)
                 ELSE <<>>)
             \o write_entries(entries, i + 1, len, more)

\* archive_text with a fault: the archive comment is written first.
archive_text_rootfirst(a) ==
    (IF a.comment # None
     THEN comment_block(a.boundary_length, a.comment[1])
          \o (IF a.entries # <<>> THEN <<NL>> ELSE <<>>)
     ELSE <<>>)
        \o write_entries(a.entries, 1, a.boundary_length, FALSE)

\* archive_text with a fault: the last body gets a newline too.
archive_text_newline(a) ==
    write_entries(a.entries, 1, a.boundary_length, TRUE)
        \o (IF a.comment # None
            THEN comment_block(a.boundary_length, a.comment[1]) ELSE <<>>)

\* What serialise writes for a valid archive: the entries, then the archive
\* comment.
archive_text(a) ==
    write_entries(a.entries, 1, a.boundary_length, a.comment # None)
        \o (IF a.comment # None
            THEN comment_block(a.boundary_length, a.comment[1]) ELSE <<>>)

\* write_archive with a fault: the boundary of the first block is written
\* before the content is validated.
write_archive_early(a, into) ==
    LET r == validate_content(a)
    IN  IF r # Ok THEN [ret |-> r, sink |-> into \o Marker(a.boundary_length)]
        ELSE [ret |-> Ok, sink |-> into \o archive_text(a)]

\* output::write_archive: validate, then append the text to the stream.
write_archive(a, into) ==
    LET r == validate_content(a)
    IN  IF r # Ok THEN [ret |-> r, sink |-> into]
        ELSE [ret |-> Ok, sink |-> into \o archive_text(a)]

\* HrxArchive::serialise
serialise(a, into) ==
    write_archive(a, into)

\* ------------------------------------------------------------------ paths

\* Characters at or below U+001F that the model's alphabet holds.
Control == {NL, "\t"}
ForbiddenChars == Control \cup {"/", "\\", ":"}

\* s split on "/": cur is the component being read.
RECURSIVE SplitFrom(_, _, _)
SplitFrom(s, i, cur) ==
    IF i > Len(s) THEN <<cur>>
    ELSE IF s[i] = "/" THEN <<cur>> \o SplitFrom(s, i + 1, <<>>)
    ELSE SplitFrom(s, i + 1, Append(cur, s[i]))

Components(s) == SplitFrom(s, 1, <<>>)

PathErr(tag, raw) == [tag |-> tag, path |-> raw]
OkPath(s) == [tag |-> "Ok", path |-> s]

\* parse::path: the path grammar applied to the whole of s.
path(s) ==
    LET cs == Components(s)
        I == 1..Len(cs)
    IN  IF \E i \in I : cs[i] = <<>> THEN PathErr("EmptyComponent", s)
        ELSE IF \E i \in I : \E k \in 1..Len(cs[i]) : cs[i][k] \in ForbiddenChars
             THEN PathErr("ForbiddenCharacter", s)
        ELSE IF \E i \in I : cs[i] \in {<<".">>, <<".", ".">>}
             THEN PathErr("ReservedComponent", s)
        ELSE OkPath(s)

\* HrxPath::from_str with a fault: a trailing slash is dropped before parsing.
path_from_str_trim(s) ==
    IF s # <<>> /\ s[Len(s)] = "/" THEN path(SubSeq(s, 1, Len(s) - 1)) ELSE path(s)

\* impl FromStr for HrxPath
path_from_str(s) ==
    path(s)

\* HrxPath::into_inner: p is the wrapped string.
into_inner(p) ==
    p

\* ---------------------------------------------------------------- parsing

\* The number of "=" in s from index i on.
RECURSIVE RunLen(_, _)
RunLen(s, i) ==
    IF i <= Len(s) /\ s[i] = "=" THEN 1 + RunLen(s, i + 1) ELSE 0

\* The width of the boundary that starts at index i of s; 0 if none does.
MarkerWidthAt(s, i) ==
    IF i <= Len(s) /\ s[i] = "<"
    THEN LET k == RunLen(s, i + 1)
         IN  IF k >= 1 /\ i + 1 + k <= Len(s) /\ s[i + 1 + k] = ">" THEN k ELSE 0
    ELSE 0

LineStart(s, i) ==
    i = 1 \/ (i >= 2 /\ i <= Len(s) + 1 /\ s[i - 1] = NL)

RECURSIVE discover_from(_, _)
discover_from(s, i) ==
    IF i > Len(s) THEN 0
    ELSE IF LineStart(s, i) /\ MarkerWidthAt(s, i) > 0 THEN MarkerWidthAt(s, i)
    ELSE discover_from(s, i + 1)

\* parse::discover_first_boundary_length: the width of the first boundary
\* that starts a line; 0 stands for None.
discover_first_boundary_length(s) ==
    discover_from(s, 1)

ParseError == [tag |-> "Parse"]
NoBoundary == [tag |-> "NoBoundary"]
DuplicateEntry(pp, old, newer) ==
    [tag |-> "DuplicateEntry", path |-> pp, first |-> old, second |-> newer]
FileAsDirectory(anc, child) ==
    [tag |-> "FileAsDirectory", path |-> anc, child |-> child]

\* The body that starts at index i: absent at the end of input and where a
\* boundary starts; otherwise the text up to the newline before the next
\* boundary, or up to the end of input.  next is where parsing goes on.
body_at(s, len, i) ==
    IF i > Len(s) \/ StartsWith(s, i, Marker(len))
    THEN [present |-> FALSE, text |-> <<>>, next |-> i]
    ELSE LET e == FindFrom(s, i, boundary_str(len))
         IN  IF e = 0
             THEN [present |-> TRUE, text |-> SubSeq(s, i, Len(s)), next |-> Len(s) + 1]
             ELSE [present |-> TRUE, text |-> SubSeq(s, i, e - 1), next |-> e + 1]

Parsed(kind, err, pp, entry, comment, next) ==
    [kind |-> kind, err |-> err, path |-> pp, entry |-> entry,
     comment |-> comment, next |-> next]
Failed(err) == Parsed("error", err, <<>>, <<>>, <<>>, 0)

\* A file or a directory at index i: boundary, space, path, "/" for a
\* directory, newline, and for a file its body if there is one.
data_at(s, len, i, comment) ==
    LET p1 == i + Len(Marker(len))
        nl == FindFrom(s, p1 + 1, <<NL>>)
        raw == SubSeq(s, p1 + 1, nl - 1)
        isdir == raw # <<>> /\ raw[Len(raw)] = "/"
        name == IF isdir THEN SubSeq(raw, 1, Len(raw) - 1) ELSE raw
        pv == path(name)
        b == body_at(s, len, nl + 1)
    IN  IF ~StartsWith(s, i, Marker(len)) THEN Failed(ParseError)
        ELSE IF p1 > Len(s) \/ s[p1] # " " THEN Failed(ParseError)
        ELSE IF nl = 0 THEN Failed(ParseError)
        ELSE IF pv.tag # "Ok" THEN Failed(pv)
        ELSE IF isdir
             THEN IF b.present THEN Failed(ParseError)
                  ELSE Parsed("entry", Ok, name, HrxEntry(comment, Directory), <<>>, nl + 1)
        ELSE Parsed("entry", Ok, name,
                    HrxEntry(comment, File(IF b.present THEN Some(b.text) ELSE None)),
                    <<>>, b.next)

\* What starts at index i: the end of input, the archive comment (a comment
\* that runs to the end of input), or an entry with its optional comment.
entry_at(s, len, i) ==
    LET p1 == i + Len(Marker(len))
        c == body_at(s, len, p1 + 1)
    IN  IF i > Len(s) THEN Parsed("eof", Ok, <<>>, <<>>, None, i)
        ELSE IF ~StartsWith(s, i, Marker(len)) THEN Failed(ParseError)
        ELSE IF p1 <= Len(s) /\ s[p1] = NL
             THEN IF ~c.present THEN Failed(ParseError)
                  ELSE IF c.next > Len(s)
                       THEN Parsed("root", Ok, <<>>, <<>>, Some(c.text), c.next)
                  ELSE data_at(s, len, c.next, Some(c.text))
        ELSE data_at(s, len, i, None)

\* p is a strict ancestor of q: q is p, "/", and more.
StrictAncestor(p, q) ==
    /\ Len(p) < Len(q)
    /\ SubSeq(q, 1, Len(p)) = p
    /\ q[Len(p) + 1] = "/"

Lookup(entries, pp) ==
    entries[CHOOSE i \in 1..Len(entries) : entries[i].path = pp].entry

Inserted(entries) == [tag |-> "Ok", entries |-> entries]

\* insert_checked with a fault: the two entries of a duplicate are swapped.
insert_checked_swapped(entries, pp, entry) ==
    IF pp \in Keys(entries)
    THEN DuplicateEntry(pp, entry, Lookup(entries, pp))
    ELSE Inserted(Append(entries, [path |-> pp, entry |-> entry]))

\* insert_checked with a fault: files may have children.
insert_checked_notree(entries, pp, entry) ==
    IF pp \in Keys(entries)
    THEN DuplicateEntry(pp, Lookup(entries, pp), entry)
    ELSE Inserted(Append(entries, [path |-> pp, entry |-> entry]))

\* The structural rules for one parsed entry, in order: a path already in
\* the map is a duplicate; a strict ancestor already in the map as a file
\* makes the file a directory; otherwise the entry is inserted at the end.
insert_checked(entries, pp, entry) ==
    LET I == 1..Len(entries)
        above == {i \in I : /\ StrictAncestor(entries[i].path, pp)
                            /\ entries[i].entry.data.kind = "File"}
        first(S) == CHOOSE i \in S : \A j \in S : i <= j
    IN  IF pp \in Keys(entries)
        THEN DuplicateEntry(pp, Lookup(entries, pp), entry)
        ELSE IF above # {}
             THEN FileAsDirectory(entries[first(above)].path, pp)
        ELSE Inserted(Append(entries, [path |-> pp, entry |-> entry]))

\* from_str_begin with a fault: a text without a boundary parses at width 1.
from_str_begin_default(s) ==
    LET w == discover_first_boundary_length(s)
    IN  [ret |-> Ok, width |-> IF w = 0 THEN 1 ELSE w]

\* impl FromStr for HrxArchive, its first line: the width, or NoBoundary.
from_str_begin(s) ==
    LET w == discover_first_boundary_length(s)
    IN  IF w = 0 THEN [ret |-> NoBoundary, width |-> 0]
        ELSE [ret |-> Ok, width |-> w]

\* parse::archive from index i on, with the entries inserted so far: the
\* archive, or the first error.
RECURSIVE archive_from(_, _, _, _)
archive_from(s, len, i, entries) ==
    LET r == entry_at(s, len, i)
        ins == insert_checked(entries, r.path, r.entry)
    IN  IF r.kind = "error" THEN [ret |-> r.err, arch |-> <<>>]
        ELSE IF r.kind \in {"eof", "root"}
             THEN [ret |-> Ok, arch |-> HrxArchive(r.comment, entries, len)]
        ELSE IF ins.tag # "Ok" THEN [ret |-> ins, arch |-> <<>>]
        ELSE archive_from(s, len, r.next, ins.entries)

\* parse::archive
archive(s, len) ==
    archive_from(s, len, 1, <<>>)

\* impl FromStr for HrxArchive
from_str(s) ==
    LET b == from_str_begin(s)
    IN  IF b.ret # Ok THEN [ret |-> b.ret, arch |-> <<>>]
        ELSE archive(s, b.width)

\* ----------------------------------------------------------------- inputs

\* Comments and bodies the caller writes into the archive.
Texts == {<<"x">>, boundary_str(1), <<"x">> \o boundary_str(2)}
OptTexts == {None} \cup {Some(t) : t \in Texts}
\* Paths the caller has obtained from HrxPath::from_str.
Paths == {<<"a">>, <<"a", "/", "b">>}
Datas == {Directory} \cup {File(b) : b \in OptTexts}
Entries == {HrxEntry(c, d) : c \in OptTexts, d \in Datas}
\* What an output stream may hold before serialise is called on it.
PreSinks == {<<>>, <<"x">>}

\* Pieces of archive text the caller concatenates into a document.
Pieces ==
    { Marker(1) \o <<" ", "a", NL>>,
      Marker(1) \o <<" ", "a", "/", NL>>,
      Marker(1) \o <<" ", "a", "/", "b", NL>>,
      Marker(1) \o <<NL>>,
      Marker(2) \o <<" ", "a", NL>>,
      Marker(1) \o <<" ", "b", NL>>,
      <<"x">>,
      <<NL>> }

\* Characters of the raw strings handed to HrxPath::from_str.
PathChars == {"a", ".", "/", ":", "\\", "\t"}

Op(name, arg) == [name |-> name, arg |-> arg]

\* ---------------------------------------------------------------- actions

\* The caller holds a fresh empty archive of boundary length n and has
\* assembled no text yet.
Start(n) ==
    /\ arch = new(n)
    /\ op = Op("new", n)
    /\ ret = Ok
    /\ sink = <<>>
    /\ pre = <<>>
    /\ text = <<>>
    /\ inp = <<>>
    /\ pc = "ready"
    /\ width = 0
    /\ pos = 0
    /\ acc = <<>>
    /\ origin = "new"

NoStream == sink' = <<>> /\ pre' = <<>>
NoParse == UNCHANGED <<text, inp, pc, width, pos, acc>>

\* The caller assigns the public field `comment`.
SetComment ==
    /\ pc = "ready"
    /\ \E c \in OptTexts :
        /\ arch' = [arch EXCEPT !.comment = c]
        /\ op' = Op("set_comment", 0)
    /\ ret' = Ok
    /\ NoStream /\ NoParse /\ UNCHANGED origin

\* The caller inserts an entry under a path the map does not hold yet.
InsertEntry ==
    /\ pc = "ready"
    /\ \E pp \in Paths \ Keys(arch.entries) : \E e \in Entries :
        /\ arch' = [arch EXCEPT !.entries = Append(@, [path |-> pp, entry |-> e])]
        /\ op' = Op("insert", 0)
    /\ ret' = Ok
    /\ NoStream /\ NoParse /\ UNCHANGED origin

ValidateContent ==
    /\ pc = "ready"
    /\ ret' = validate_content(arch)
    /\ op' = Op("validate_content", 0)
    /\ UNCHANGED arch
    /\ NoStream /\ NoParse /\ UNCHANGED origin

SetBoundaryLength ==
    /\ pc = "ready"
    /\ \E n \in 1..MaxWidth :
        LET r == set_boundary_length(arch, n)
        IN  /\ arch' = r.arch
            /\ ret' = r.ret
            /\ op' = Op("set_boundary_length", n)
    /\ NoStream /\ NoParse /\ UNCHANGED origin

Serialise ==
    /\ pc = "ready"
    /\ \E p0 \in PreSinks :
        LET r == serialise(arch, p0)
        IN  /\ ret' = r.ret
            /\ sink' = r.sink
            /\ pre' = p0
    /\ op' = Op("serialise", 0)
    /\ UNCHANGED arch
    /\ NoParse /\ UNCHANGED origin

Pristine == pc = "ready" /\ op.name \in {"new", "append"}
Appended == IF op.name = "append" THEN op.arg ELSE 0

\* The caller appends a piece to the document it is assembling.
AppendPiece ==
    /\ Pristine
    /\ Appended < MaxPieces
    /\ \E p \in Pieces : text' = text \o p
    /\ op' = Op("append", Appended + 1)
    /\ UNCHANGED <<arch, ret, sink, pre, inp, pc, width, pos, acc, origin>>

\* from_str(s) up to the call of parse::archive: the width is discovered,
\* or the call returns NoBoundary.
FromStr(s, src) ==
    LET b == from_str_begin(s)
    IN  /\ inp' = s
        /\ op' = Op("from_str", src)
        /\ ret' = b.ret
        /\ width' = b.width
        /\ pc' = IF b.ret = Ok THEN "parsing" ELSE "ready"
        /\ pos' = 1
        /\ acc' = <<>>
        /\ UNCHANGED <<arch, text, sink, pre, origin>>

\* The caller parses the document it assembled.
FromStrText ==
    /\ Pristine
    /\ FromStr(text, 0)

\* The caller parses what serialise has just written to an empty stream.
FromStrSink ==
    /\ pc = "ready"
    /\ op.name = "serialise" /\ ret = Ok /\ pre = <<>>
    /\ FromStr(sink, 1)

\* parse::archive, one entry at a time: the entry at pos is read and
\* inserted; at the end of input the archive is returned to the caller.
ParseEntry ==
    /\ pc = "parsing"
    /\ LET r == entry_at(inp, width, pos)
           ins == insert_checked(acc, r.path, r.entry)
       IN  IF r.kind = "error"
           THEN /\ ret' = r.err /\ pc' = "ready"
                /\ UNCHANGED <<arch, origin, pos, acc>>
           ELSE IF r.kind \in {"eof", "root"}
           THEN /\ arch' = HrxArchive(r.comment, acc, width)
                /\ origin' = "parsed"
                /\ ret' = Ok /\ pc' = "ready"
                /\ UNCHANGED <<pos, acc>>
           ELSE IF ins.tag # "Ok"
           THEN /\ ret' = ins /\ pc' = "ready"
                /\ UNCHANGED <<arch, origin, pos, acc>>
           ELSE /\ acc' = ins.entries /\ pos' = r.next
                /\ UNCHANGED <<arch, origin, ret, pc>>
    /\ UNCHANGED <<op, text, inp, width, sink, pre>>

\* The caller appends a character to the raw path it is assembling.
AppendChar ==
    /\ pc = "ready"
    /\ op.name \in {"new", "char"}
    /\ Len(text) < MaxPathLen
    /\ \E c \in PathChars : text' = Append(text, c)
    /\ op' = Op("char", 0)
    /\ UNCHANGED <<arch, ret, sink, pre, inp, pc, width, pos, acc, origin>>

PathFromStr ==
    /\ pc = "ready"
    /\ op.name \in {"new", "char"}
    /\ ret' = path_from_str(text)
    /\ op' = Op("path_from_str", 0)
    /\ UNCHANGED <<arch, text, sink, pre, inp, pc, width, pos, acc, origin>>

IntoInner ==
    /\ pc = "ready"
    /\ op.name = "path_from_str" /\ ret.tag = "Ok"
    /\ ret' = [tag |-> "String", val |-> into_inner(ret.path)]
    /\ op' = Op("into_inner", 0)
    /\ UNCHANGED <<arch, text, sink, pre, inp, pc, width, pos, acc, origin>>

\* ---------------------------------------------------------- specifications

\* The caller builds an archive by hand and validates, resizes and
\* serialises it.
Next ==
    \/ SetComment
    \/ InsertEntry
    \/ ValidateContent
    \/ SetBoundaryLength
    \/ Serialise

Init == \E n \in 1..MaxWidth : Start(n)

Spec == Init /\ [][Next]_vars

\* The caller works on the archive it parsed, or on the empty one if it has
\* assembled no document.
Settled == origin = "parsed" \/ text = <<>>

\* The caller assembles a document, parses it, and serialises and reparses
\* the archive it holds.
NextParse ==
    \/ AppendPiece
    \/ FromStrText
    \/ ParseEntry
    \/ Settled /\ SetBoundaryLength
    \/ Settled /\ Serialise
    \/ FromStrSink

InitParse == Start(1)

SpecParse == InitParse /\ [][NextParse]_vars

\* The caller assembles a raw string and parses it as a path.
NextPath ==
    \/ AppendChar
    \/ PathFromStr
    \/ IntoInner

InitPath == Start(1)

SpecPath == InitPath /\ [][NextPath]_vars

\* ------------------------------------------------------------- properties

\* The entry-by-entry run of from_str returns what the function from_str
\* returns.
StepwiseAgrees ==
    (op.name = "from_str" /\ pc = "ready") =>
        /\ ret = from_str(inp).ret
        /\ ret = Ok => arch = from_str(inp).arch

\* Text t holds a newline followed by the boundary of width w.
HasBoundary(t, w) ==
    \E i \in 1..Len(t) : StartsWith(t, i, <<NL>> \o Marker(w))

\* The places validation looks at, numbered in the order of the claim:
\* 0 the archive comment, 2i-1 the comment of entry i, 2i its body.
Places(a) == 0..(2 * Len(a.entries))
PlaceText(a, k) ==
    IF k = 0 THEN a.comment
    ELSE LET e == a.entries[(k + 1) \div 2].entry
         IN  IF k % 2 = 1 THEN e.comment
             ELSE IF e.data.kind = "File" THEN e.data.body ELSE None
PlaceTag(a, k) ==
    IF k = 0 THEN RootComment
    ELSE LET pp == a.entries[(k + 1) \div 2].path
         IN  IF k % 2 = 1 THEN EntryComment(pp) ELSE EntryData(pp)
Offending(a, w) ==
    {k \in Places(a) : PlaceText(a, k) # None /\ HasBoundary(PlaceText(a, k)[1], w)}
\* What validation at width w is to return.
Verdict(a, w) ==
    IF Offending(a, w) = {} THEN Ok
    ELSE PlaceTag(a, CHOOSE k \in Offending(a, w) : \A j \in Offending(a, w) : k <= j)

\* C1: set_boundary_length(new_len) fails with the content error and leaves
\* the archive (length, comment, entries) as it was if some comment or body
\* holds newline + the boundary of width new_len; otherwise it returns Ok and
\* only the length changes, to new_len.
C1_SetBoundaryLengthTransactional ==
    [][op'.name = "set_boundary_length" =>
        IF Offending(arch, op'.arg) # {}
        THEN ret'.tag = "BodyContainsBoundary" /\ arch' = arch
        ELSE /\ ret' = Ok
             /\ arch'.boundary_length = op'.arg
             /\ arch'.comment = arch.comment
             /\ arch'.entries = arch.entries]_vars

\* A failed call after a successful one: the length is still the old one.
C1_Witness ==
    /\ op.name = "set_boundary_length"
    /\ ret.tag = "BodyContainsBoundary"
    /\ arch.boundary_length # op.arg
    /\ arch.boundary_length = 2
    /\ Len(arch.entries) = 2

\* C2: serialise of an archive that fails content validation at its current
\* boundary length returns that content error and writes nothing: the
\* stream holds what it held before the call.
C2_SerialiseWritesNothingOnContentError ==
    [][(op'.name = "serialise" /\ Offending(arch, arch.boundary_length) # {}) =>
        /\ ret' = Verdict(arch, arch.boundary_length)
        /\ sink' = pre']_vars

\* A failed serialise onto a stream that already held a byte.
C2_Witness ==
    /\ op.name = "serialise"
    /\ ret.tag = "BodyContainsBoundary"
    /\ ret.where = "EntryData"
    /\ pre = <<"x">>
    /\ sink = pre

\* C5: validation at width w returns the tag of the first place, in the
\* order archive comment, then per entry in map order its comment and its
\* body (files only), that holds newline + the boundary of width w; Ok iff
\* there is none; and the archive is not modified.
C5_ValidationReportsFirstOffender ==
    [][/\ op'.name = "validate_content" =>
            ret' = Verdict(arch, arch.boundary_length) /\ arch' = arch
       /\ op'.name = "set_boundary_length" =>
            ret' = Verdict(arch, op'.arg)]_vars

\* The body of the second entry is reported; the first entry is a directory
\* and the archive comment holds a boundary of another width.
C5_Witness ==
    /\ op.name = "validate_content"
    /\ Len(arch.entries) = 2
    /\ ret = EntryData(arch.entries[2].path)
    /\ arch.entries[1].entry.data.kind = "Directory"
    /\ arch.comment # None
    /\ \E w \in 1..MaxWidth : HasBoundary(arch.comment[1], w)

\* What the last serialise call appended to the stream.
Written == SubSeq(sink, Len(pre) + 1, Len(sink))

\* Where the header line of entry i starts in out: the first line start
\* after the header of entry i-1 at which it occurs; 0 if there is none.
RECURSIVE HeaderAt(_, _, _)
HeaderAt(out, a, i) ==
    LET prev == IF i = 1 THEN 0 ELSE HeaderAt(out, a, i - 1)
        h == path_line(a.boundary_length, a.entries[i].path, a.entries[i].entry.data)
        at == {q \in (prev + 1)..Len(out) : LineStart(out, q) /\ StartsWith(out, q, h)}
    IN  IF i > 1 /\ prev = 0 THEN 0
        ELSE IF at = {} THEN 0
        ELSE CHOOSE q \in at : \A r \in at : q <= r

\* The entries are written in map order, each header line with "/" iff the
\* entry is a directory, each entry comment as a bare boundary line and the
\* comment right before the header.
EntriesInOrder(out, a) ==
    \A i \in 1..Len(a.entries) :
        LET e == a.entries[i].entry
            q == HeaderAt(out, a, i)
            cb == comment_block(a.boundary_length, e.comment[1]) \o <<NL>>
        IN  /\ q > 0
            /\ e.comment # None =>
                /\ StartsWith(out, q - Len(cb), cb)
                /\ LineStart(out, q - Len(cb))

Serialised == op.name = "serialise" /\ ret = Ok

\* C8 as stated: the archive comment is written first, the entries after it.
C8_RootCommentFirst ==
    Serialised =>
        /\ EntriesInOrder(Written, arch)
        /\ arch.comment # None =>
            LET rb == comment_block(arch.boundary_length, arch.comment[1])
            IN  /\ StartsWith(Written, 1, rb)
                /\ \A i \in 1..Len(arch.entries) : HeaderAt(Written, arch, i) > Len(rb)

\* C8, amended: serialise writes the entries in map order, an entry's
\* comment block right before its header line, "/" after the path iff the
\* entry is a directory, and the archive comment (a bare boundary line, then
\* the comment verbatim) last, after every entry.
C8_RootCommentLast ==
    Serialised =>
        /\ EntriesInOrder(Written, arch)
        /\ arch.comment # None =>
            LET rb == comment_block(arch.boundary_length, arch.comment[1])
                q == Len(Written) - Len(rb) + 1
            IN  /\ StartsWith(Written, q, rb)
                /\ LineStart(Written, q)
                /\ \A i \in 1..Len(arch.entries) :
                    HeaderAt(Written, arch, i)
                        + Len(path_line(arch.boundary_length, arch.entries[i].path,
                                        arch.entries[i].entry.data)) <= q

\* A directory with a comment, then a file, then the archive comment.
C8_Witness ==
    /\ Serialised
    /\ arch.comment # None
    /\ Len(arch.entries) = 2
    /\ arch.entries[1].entry.data.kind = "Directory"
    /\ arch.entries[1].entry.comment # None
    /\ arch.entries[2].entry.data.kind = "File"
    /\ arch.entries[2].entry.data.body # None

\* The caller holds the archive that parsing `text` returns, its boundary
\* length as parsed.
HoldsParseOfText ==
    /\ origin = "parsed"
    /\ from_str(text).ret = Ok
    /\ arch = from_str(text).arch

\* C3: serialising the archive parsed from a text, its boundary length not
\* changed in between, writes that text again, character for character.
C3_RoundTrip ==
    (op.name = "serialise" /\ pre = <<>> /\ HoldsParseOfText) =>
        ret = Ok /\ sink = text

\* A round trip of a text with a present-but-empty body and an absent body.
C3_Witness ==
    /\ op.name = "serialise" /\ pre = <<>> /\ HoldsParseOfText
    /\ sink = text
    /\ Len(arch.entries) = 2
    /\ arch.entries[1].entry.data = File(Some(<<>>))
    /\ arch.entries[2].entry.data = File(None)

\* The step that ends the from_str call on what serialise wrote: the call
\* that finds no boundary, or the parsing step that returns.
ReparseReturns ==
    /\ op'.name = "from_str" /\ op'.arg = 1
    /\ pc' = "ready"
    /\ pc = "parsing" \/ op.name = "serialise"

\* C4 as stated: for every archive that passes content validation, also one
\* built by new(), parsing what serialise wrote succeeds and returns an
\* equal archive.
C4_ReparseOfAnyValidArchive ==
    [][ReparseReturns => (ret' = Ok /\ arch' = arch)]_vars

\* C4, amended: for every archive returned by a successful parse, its
\* boundary length not changed since, parsing what serialise wrote succeeds
\* and returns an equal archive (comment, entries in order, length).
C4_ReparseOfParsedArchive ==
    [][(ReparseReturns /\ HoldsParseOfText) => (ret' = Ok /\ arch' = arch)]_vars

\* A reparse that returned an archive with an entry comment and a body.
C4_Witness ==
    /\ op.name = "from_str" /\ op.arg = 1 /\ pc = "ready" /\ ret = Ok
    /\ HoldsParseOfText
    /\ \E i \in 1..Len(arch.entries) :
        /\ arch.entries[i].entry.comment # None
        /\ arch.entries[i].entry.data.kind = "File"
        /\ arch.entries[i].entry.data.body # None

UniquePaths(entries) ==
    \A i, j \in 1..Len(entries) : entries[i].path = entries[j].path => i = j

\* C6: a block whose path (a directory's without its "/") an earlier block
\* has inserted makes parsing fail with DuplicateEntry(path, earlier entry,
\* later entry) and return no archive; every parsed archive has unique paths.
C6_DuplicateEntry ==
    [][/\ (pc = "parsing" /\ entry_at(inp, width, pos).kind = "entry"
              /\ entry_at(inp, width, pos).path \in Keys(acc)) =>
            LET r == entry_at(inp, width, pos)
                i == CHOOSE k \in 1..Len(acc) : acc[k].path = r.path
            IN  /\ ret' = DuplicateEntry(r.path, acc[i].entry, r.entry)
                /\ pc' = "ready"
                /\ arch' = arch /\ origin' = origin
       /\ (pc = "parsing" /\ pc' = "ready" /\ ret' = Ok) => UniquePaths(arch'.entries)]_vars

\* A directory "a/" and then a file "a": reported in that order.
C6_Witness ==
    /\ op.name = "from_str" /\ pc = "ready"
    /\ ret.tag = "DuplicateEntry"
    /\ ret.path = <<"a">>
    /\ ret.first.data.kind = "Directory"
    /\ ret.second.data.kind = "File"

\* No entry of the map lies below a file of the map.
NoFileHasChildren(entries) ==
    \A i, j \in 1..Len(entries) :
        entries[i].entry.data.kind = "File" =>
            ~StrictAncestor(entries[i].path, entries[j].path)

\* No entry of the map lies below a file that was inserted before it.
NoEntryAfterItsFile(entries) ==
    \A i, j \in 1..Len(entries) :
        (i < j /\ entries[i].entry.data.kind = "File") =>
            ~StrictAncestor(entries[i].path, entries[j].path)

\* The next block of the running parse is an entry whose path lies below a
\* file already inserted.
BelowInsertedFile ==
    /\ pc = "parsing" /\ entry_at(inp, width, pos).kind = "entry"
    /\ \E k \in 1..Len(acc) :
          /\ acc[k].entry.data.kind = "File"
          /\ StrictAncestor(acc[k].path, entry_at(inp, width, pos).path)

\* The step ends the parse with FileAsDirectory(file, path) and returns no
\* archive.
FailsFileAsDirectory ==
    LET r == entry_at(inp, width, pos)
        k == CHOOSE k \in 1..Len(acc) :
                /\ acc[k].entry.data.kind = "File"
                /\ StrictAncestor(acc[k].path, r.path)
    IN  /\ ret' = FileAsDirectory(acc[k].path, r.path)
        /\ pc' = "ready"
        /\ arch' = arch /\ origin' = origin

ParsedFileAfterChild ==
    /\ op.name = "from_str" /\ pc = "ready" /\ ret = Ok
    /\ Len(arch.entries) = 2
    /\ arch.entries[1].path = <<"a", "/", "b">>
    /\ arch.entries[2].path = <<"a">>
    /\ arch.entries[2].entry.data.kind = "File"

\* A boundary of width w starts at index i of s.
MarkerAt(s, i, w) ==
    StartsWith(s, i, Marker(w))
\* No boundary of any width starts a line of s before index i.
NoMarkerBefore(s, i) ==
    \A j \in 1..(i - 1) : \A k \in 1..Len(s) : ~(LineStart(s, j) /\ MarkerAt(s, j, k))

\* C9: from_str takes as width the number of "=" of the first boundary that
\* starts the text or follows a newline; the archive it returns has that
\* boundary length, and every entry's header line in the text has that
\* width; a text without such a boundary fails with NoBoundary.
C9_BoundaryDiscovery ==
    op.name = "from_str" =>
        /\ NoMarkerBefore(inp, Len(inp) + 1) => (ret = NoBoundary /\ pc = "ready")
        /\ ~NoMarkerBefore(inp, Len(inp) + 1) =>
            /\ ret # NoBoundary
            /\ \E i \in 1..Len(inp) :
                LineStart(inp, i) /\ MarkerAt(inp, i, width) /\ NoMarkerBefore(inp, i)
        /\ (pc = "ready" /\ ret = Ok) =>
            /\ arch.boundary_length = width
            /\ \A e \in 1..Len(arch.entries) : \E i \in 1..Len(inp) :
                /\ LineStart(inp, i)
                /\ StartsWith(inp, i, path_line(width, arch.entries[e].path,
                                                arch.entries[e].entry.data))

\* The first boundary has width 2; a later line starting with a boundary of
\* width 1 is part of a body.
C9_Witness ==
    /\ op.name = "from_str" /\ pc = "ready" /\ ret = Ok
    /\ width = 2
    /\ Len(arch.entries) = 1
    /\ \E i \in 2..Len(inp) : LineStart(inp, i) /\ MarkerAt(inp, i, 1)

\* s has an empty component: it is empty, or starts or ends with "/", or
\* holds "//".
HasEmptyComponent(s) ==
    \/ s = <<>>
    \/ s[1] = "/"
    \/ s[Len(s)] = "/"
    \/ \E i \in 1..(Len(s) - 1) : s[i] = "/" /\ s[i + 1] = "/"
HasForbiddenCharacter(s) ==
    \E i \in 1..Len(s) : s[i] \in (Control \cup {"\\", ":"})
\* A component of s, a run between slashes or the ends, is "." or "..".
HasReservedComponent(s) ==
    \E i \in 1..Len(s) : \E j \in i..Len(s) :
        /\ i = 1 \/ s[i - 1] = "/"
        /\ j = Len(s) \/ s[j + 1] = "/"
        /\ SubSeq(s, i, j) \in {<<".">>, <<".", ".">>}

\* C10: HrxPath::from_str succeeds iff no component is empty, holds a
\* forbidden character or is "." or ".."; the path then wraps the string
\* unchanged and into_inner returns it; an error names a defect the string
\* has.
C10_PathValidation ==
    /\ op.name = "path_from_str" =>
        /\ ret.tag \in {"Ok", "EmptyComponent", "ForbiddenCharacter", "ReservedComponent"}
        /\ ret.tag = "Ok" <=>
            ~(HasEmptyComponent(text) \/ HasForbiddenCharacter(text)
                \/ HasReservedComponent(text))
        /\ ret.path = text
        /\ ret.tag = "EmptyComponent" => HasEmptyComponent(text)
        /\ ret.tag = "ForbiddenCharacter" => HasForbiddenCharacter(text)
        /\ ret.tag = "ReservedComponent" => HasReservedComponent(text)
    /\ op.name = "into_inner" => ret = [tag |-> "String", val |-> text]

\* A path of two components, unwrapped again.
C10_Witness ==
    /\ op.name = "into_inner"
    /\ ret.val = <<"a", "/", ".", "a">>

====
